---------------------------- MODULE Spec2Model ----------------------------
(***************************************************************************)
(* GPay Transaction Analyzer (src/app.py): a Streamlit script that reads   *)
(* an uploaded CSV, drops rows it cannot use, classifies each row as       *)
(* Merchant / Friend / Stranger, formats the timestamp, totals the amounts *)
(* per category and lets the user drill down to one transaction.           *)
(*                                                                         *)
(* Strings are sequences of one-character strings, so that substring       *)
(* containment, lower-casing, parsing and formatting are computed.         *)
(* Library behaviour is that of pandas 1.5 - 2.x and of CPython's          *)
(* datetime: Series.astype(str) turns a missing cell into the text "nan",  *)
(* pd.to_datetime("nan") is NaT, NaT.strftime raises ValueError, and       *)
(* DataFrame.apply(axis=1) on a frame without rows gives an empty Series.  *)
(* read_csv reads an empty field as a missing value.  Streamlit runs the   *)
(* script from the top on every upload and widget change, and its session  *)
(* keeps the value of a widget that is built again with the same label and *)
(* options.  Amounts are integers (whole rupees).                          *)
(***************************************************************************)
EXTENDS Integers, Sequences, FiniteSets, TLC

VARIABLES
    uploaded_file,    \* the file in the uploader, or NoFile          (line 68)
    status,           \* where the last script run ended
    df,               \* the enriched table of the last run       (lines 75-102)
    csv_data,         \* rows offered by the download button     (lines 105-113)
    category_totals,  \* the sorted group totals                 (lines 119-124)
    chosen_category,  \* value of the category selectbox         (lines 140-143)
    options,          \* labels of the transaction radio         (lines 151-154)
    picked,           \* index the session holds for the radio        (line 157)
    selected_label,   \* value of the radio                           (line 157)
    txn,              \* the record the detail panel echoes      (lines 161-168)
    name,             \* classifier driver: the account name given
    category          \* classifier driver: the label returned

vars == <<uploaded_file, status, df, csv_data, category_totals, chosen_category,
          options, picked, selected_label, txn, name, category>>

appVars == <<uploaded_file, status, df, csv_data, category_totals,
             chosen_category, options, picked, selected_label, txn>>

-----------------------------------------------------------------------------
(* Bounds of the model.                                                    *)

\* rows of an uploaded table
MaxRows == 2
\* rows of a table handed to the aggregation on its own
MaxAggRows == 3
\* fragments an account name given to the classifier is built from
MaxFrags == 2

-----------------------------------------------------------------------------
(* Strings.                                                                *)

UpperChars ==
    <<"A","B","C","D","E","F","G","H","I","J","K","L","M",
      "N","O","P","Q","R","S","T","U","V","W","X","Y","Z">>

LowerChars ==
    <<"a","b","c","d","e","f","g","h","i","j","k","l","m",
      "n","o","p","q","r","s","t","u","v","w","x","y","z">>

\* str.lower() on one character
LowerChar(c) ==
    IF \E i \in 1..Len(UpperChars) : UpperChars[i] = c
    THEN LowerChars[CHOOSE i \in 1..Len(UpperChars) : UpperChars[i] = c]
    ELSE c

\* str.lower()
lower(s) == [i \in 1..Len(s) |-> LowerChar(s[i])]

\* Python's  sub in s  on strings
Contains(sub, s) ==
    \E i \in 0..(Len(s) - Len(sub)) :
        \A j \in 1..Len(sub) : s[i + j] = sub[j]

\* the text of a missing cell after astype(str), and of str(float("nan"))
NanText == <<"n","a","n">>

-----------------------------------------------------------------------------
(* Configuration (lines 8-14).                                             *)

MERCHANTS ==
    << <<"s","w","i","g","g","y">>,
       <<"z","o","m","a","t","o">>,
       <<"a","m","a","z","o","n">>,
       <<"i","r","c","t","c">>,
       <<"f","l","i","p","k","a","r","t">>,
       <<"b","i","g","b","a","s","k","e","t">>,
       <<"r","e","l","i","a","n","c","e">>,
       <<"m","y","n","t","r","a">> >>

CONTACTS ==
    << <<"r","a","h","u","l">>,
       <<"n","e","h","a">>,
       <<"a","r","j","u","n">>,
       <<"s","n","e","h","a">>,
       <<"v","i","k","r","a","m">> >>

-----------------------------------------------------------------------------
(* classify_transaction_row (lines 17-34).                                 *)

\* for x in list: if x in name: return label   -- the index of the first
\* entry of the list from position i on that the name contains, or 0
RECURSIVE FirstMatch(_, _, _)
FirstMatch(list, lname, i) ==
    IF i > Len(list) THEN 0
    ELSE IF Contains(list[i], lname) THEN i
    ELSE FirstMatch(list, lname, i + 1)

\* a plausible slip: the contact list is scanned before the merchant list
classify_contacts_first(account_name) ==
    LET lname == lower(account_name) IN
    IF FirstMatch(CONTACTS, lname, 1) > 0 THEN "Friend"
    ELSE IF FirstMatch(MERCHANTS, lname, 1) > 0 THEN "Merchant"
    ELSE "Stranger"

\* account_name is str(row["account_name"])
classify_transaction_row(account_name) ==
    LET lname == lower(account_name) IN
    IF FirstMatch(MERCHANTS, lname, 1) > 0 THEN "Merchant"
    ELSE IF FirstMatch(CONTACTS, lname, 1) > 0 THEN "Friend"
    ELSE "Stranger"

-----------------------------------------------------------------------------
(* format_timestamp (lines 36-48).                                         *)

DigitChars == <<"0","1","2","3","4","5","6","7","8","9">>

IsDigit(c) == \E i \in 1..Len(DigitChars) : DigitChars[i] = c

DigitVal(c) == (CHOOSE i \in 1..Len(DigitChars) : DigitChars[i] = c) - 1

\* int() of a run of digits
RECURSIVE NumVal(_)
NumVal(run) ==
    IF Len(run) = 0 THEN 0
    ELSE 10 * NumVal(SubSeq(run, 1, Len(run) - 1)) + DigitVal(run[Len(run)])

IsRun(tok) == Len(tok) > 0 /\ \A k \in 1..Len(tok) : IsDigit(tok[k])

\* the last position of the run of digits that starts at i
RunEnd(s, i) ==
    CHOOSE j \in i..Len(s) :
        /\ \A k \in i..j : IsDigit(s[k])
        /\ (j = Len(s) \/ ~IsDigit(s[j + 1]))

\* the string cut into its maximal runs of digits and its other characters
RECURSIVE Tokenize(_, _)
Tokenize(s, i) ==
    IF i > Len(s) THEN << >>
    ELSE IF IsDigit(s[i])
         THEN <<SubSeq(s, i, RunEnd(s, i))>> \o Tokenize(s, RunEnd(s, i) + 1)
         ELSE << <<s[i]>> >> \o Tokenize(s, i + 1)

IsLeap(y) == (y % 4 = 0 /\ y % 100 # 0) \/ y % 400 = 0

DaysInMonth(y, m) ==
    IF m = 2 THEN (IF IsLeap(y) THEN 29 ELSE 28)
    ELSE IF m \in {4, 6, 9, 11} THEN 30 ELSE 31

\* what a parse gives: a datetime, NaT, or a raised ValueError
DateTime(y, mo, d, h, mi, s) ==
    [kind |-> "datetime", year |-> y, month |-> mo, day |-> d,
     hour |-> h, minute |-> mi, second |-> s]

NaT == [kind |-> "NaT", year |-> 0, month |-> 0, day |-> 0,
        hour |-> 0, minute |-> 0, second |-> 0]

ValueError == [kind |-> "ValueError", year |-> 0, month |-> 0, day |-> 0,
               hour |-> 0, minute |-> 0, second |-> 0]

\* the fields datetime(...) accepts
ValidDate(y, mo, d) ==
    y >= 1 /\ mo \in 1..12 /\ d >= 1 /\ d <= DaysInMonth(y, mo)

ValidTime(h, mi, s) == h \in 0..23 /\ mi \in 0..59 /\ s \in 0..59

\* one or two digits, as %m %d %H %M %S match them
Short(tok) == IsRun(tok) /\ Len(tok) \in 1..2

\* tokens 1..5 are  YYYY - M - D  with the year of exactly four digits
DateTokens(t) ==
    /\ Len(t) >= 5
    /\ IsRun(t[1]) /\ Len(t[1]) = 4
    /\ t[2] = <<"-">> /\ Short(t[3]) /\ t[4] = <<"-">> /\ Short(t[5])

\* tokens 7..11 are  h : m : s
TimeTokens(t) ==
    /\ Len(t) >= 11
    /\ Short(t[7]) /\ t[8] = <<":">> /\ Short(t[9])
    /\ t[10] = <<":">> /\ Short(t[11])

\* datetime.strptime(ts, "%Y-%m-%dT%H:%M:%S")   (line 44)
strptime(ts) ==
    LET t == Tokenize(ts, 1) IN
    IF /\ Len(t) = 11 /\ DateTokens(t) /\ t[6] = <<"T">> /\ TimeTokens(t)
       /\ ValidDate(NumVal(t[1]), NumVal(t[3]), NumVal(t[5]))
       /\ ValidTime(NumVal(t[7]), NumVal(t[9]), NumVal(t[11]))
    THEN DateTime(NumVal(t[1]), NumVal(t[3]), NumVal(t[5]),
                  NumVal(t[7]), NumVal(t[9]), NumVal(t[11]))
    ELSE ValueError

\* pd.to_datetime(ts) (line 47), for the layouts the model feeds it: the
\* missing-value texts give NaT; an ISO date, alone or followed by "T" or a
\* blank and a time, with or without a fraction of a second, is parsed; any
\* other text of the model's inputs raises.
to_datetime(ts) ==
    LET t == Tokenize(ts, 1) IN
    IF lower(ts) \in {NanText, <<"n","a","t">>} THEN NaT
    ELSE IF /\ Len(t) = 5 /\ DateTokens(t)
            /\ ValidDate(NumVal(t[1]), NumVal(t[3]), NumVal(t[5]))
    THEN DateTime(NumVal(t[1]), NumVal(t[3]), NumVal(t[5]), 0, 0, 0)
    ELSE IF /\ Len(t) \in {11, 13} /\ DateTokens(t)
            /\ t[6] \in {<<"T">>, <<" ">>} /\ TimeTokens(t)
            /\ (Len(t) = 13 => t[12] = <<".">> /\ IsRun(t[13]))
            /\ ValidDate(NumVal(t[1]), NumVal(t[3]), NumVal(t[5]))
            /\ ValidTime(NumVal(t[7]), NumVal(t[9]), NumVal(t[11]))
    THEN DateTime(NumVal(t[1]), NumVal(t[3]), NumVal(t[5]),
                  NumVal(t[7]), NumVal(t[9]), NumVal(t[11]))
    ELSE ValueError

\* str(n) of a natural number
RECURSIVE StrNat(_)
StrNat(n) ==
    IF n < 10 THEN <<DigitChars[n + 1]>>
    ELSE StrNat(n \div 10) \o <<DigitChars[(n % 10) + 1]>>

\* str(n) of an integer
StrInt(n) == IF n < 0 THEN <<"-">> \o StrNat(0 - n) ELSE StrNat(n)

\* zero-padded to two digits (%d %I %M)
Pad2(n) == IF n < 10 THEN <<"0">> \o StrNat(n) ELSE StrNat(n)

\* %Y; the years of the inputs have four digits
Pad4(n) ==
    IF n < 10 THEN <<"0","0","0">> \o StrNat(n)
    ELSE IF n < 100 THEN <<"0","0">> \o StrNat(n)
    ELSE IF n < 1000 THEN <<"0">> \o StrNat(n)
    ELSE StrNat(n)

\* %b
MonthAbbr ==
    << <<"J","a","n">>, <<"F","e","b">>, <<"M","a","r">>, <<"A","p","r">>,
       <<"M","a","y">>, <<"J","u","n">>, <<"J","u","l">>, <<"A","u","g">>,
       <<"S","e","p">>, <<"O","c","t">>, <<"N","o","v">>, <<"D","e","c">> >>

\* %I: the hour on the 12-hour clock
Hour12(h) == IF h % 12 = 0 THEN 12 ELSE h % 12

\* dt.strftime("%d %b %Y, %I:%M %p")   (line 48)
strftime(dt) ==
    Pad2(dt.day) \o <<" ">> \o MonthAbbr[dt.month] \o <<" ">> \o Pad4(dt.year)
    \o <<",", " ">> \o Pad2(Hour12(dt.hour)) \o <<":">> \o Pad2(dt.minute)
    \o <<" ">> \o (IF dt.hour < 12 THEN <<"A","M">> ELSE <<"P","M">>)

\* what format_timestamp gives: a display string, or an exception that
\* leaves the function (raised is TRUE, no string)
Formatted(text) == [raised |-> FALSE, text |-> text]

Raised == [raised |-> TRUE, text |-> << >>]

\* a plausible slip: a timestamp no parse accepts is shown as it came
format_timestamp_echo(ts) ==
    LET strict == strptime(ts)
        dt == IF strict.kind = "datetime" THEN strict ELSE to_datetime(ts)
    IN  IF dt.kind = "datetime" THEN Formatted(strftime(dt)) ELSE Formatted(ts)

\* ts is already text (line 93).  The strict parse, on ValueError the
\* permissive one; its ValueError is not caught, and NaT.strftime raises.
format_timestamp(ts) ==
    LET strict == strptime(ts)
        dt == IF strict.kind = "datetime" THEN strict ELSE to_datetime(ts)
    IN  IF dt.kind = "datetime" THEN Formatted(strftime(dt)) ELSE Raised

-----------------------------------------------------------------------------
(* The uploaded file and its cells.                                        *)

\* a cell of the amount column as read_csv gives it: a number, a text that
\* is no number (such as abc), or a missing value
NumCell(v) == [kind |-> "num", val |-> v, text |-> << >>]

TextCell(s) == [kind |-> "str", val |-> 0, text |-> s]

NACell == [kind |-> "na", val |-> 0, text |-> << >>]

RawRow(a, n, t) == [amount |-> a, account_name |-> n, timestamp |-> t]

\* the uploader holds nothing, bytes read_csv rejects, or a table
NoFile == [kind |-> "none", columns |-> {}, rows |-> << >>]

BadFile == [kind |-> "garbage", columns |-> {}, rows |-> << >>]

CsvFile(cols, rows) == [kind |-> "csv", columns |-> cols, rows |-> rows]

\* a plausible slip: the timestamp left out of the required columns
required_cols_without_timestamp == {"amount", "account_name"}

\* the set of required column names (line 81)
required_cols == {"amount", "account_name", "timestamp"}

-----------------------------------------------------------------------------
(* The inputs of the model.                                                *)

Swiggy == <<"S","w","i","g","g","y">>

Rahul == <<"R","a","h","u","l">>

Bob == <<"B","o","b">>

NehaAtAmazon == <<"n","e","h","a","@","A","m","a","z","o","n">>

\* 2024-03-05T14:30:00
Afternoon ==
    <<"2","0","2","4","-","0","3","-","0","5","T","1","4",":","3","0",":","0","0">>

\* 2024-03-05T14:30:59, the same minute
AfternoonLater ==
    <<"2","0","2","4","-","0","3","-","0","5","T","1","4",":","3","0",":","5","9">>

\* 2024-03-05 00:05:00, a blank where the strict pattern wants T
Midnight ==
    <<"2","0","2","4","-","0","3","-","0","5"," ","0","0",":","0","5",":","0","0">>

\* a text no parser reads as a date
Soon == <<"s","o","o","n">>

Abc == <<"a","b","c">>

RawRows ==
    { RawRow(NumCell(100), TextCell(Swiggy), TextCell(Afternoon)),
      RawRow(NumCell(100), TextCell(Swiggy), TextCell(AfternoonLater)),
      RawRow(NumCell(50), TextCell(Rahul), TextCell(Midnight)),
      RawRow(NumCell(75), TextCell(Bob), TextCell(Afternoon)),
      RawRow(NumCell(50), TextCell(NehaAtAmazon), TextCell(Afternoon)),
      RawRow(TextCell(Abc), TextCell(Rahul), TextCell(Soon)),
      RawRow(NumCell(50), NACell, TextCell(Afternoon)),
      RawRow(NumCell(75), TextCell(Swiggy), NACell),
      RawRow(NumCell(75), TextCell(Bob), TextCell(Soon)) }

\* the sequences over S of length n or less
SeqUpTo(S, n) == UNION {[1..k -> S] : k \in 0..n}

\* column sets other than the required one: a column too many, the
\* timestamp missing, the amount under another spelling, another column
\* alone
OtherColumnSets ==
    { {"amount", "account_name", "timestamp", "note"},
      {"amount", "account_name"},
      {"Amount", "account_name", "timestamp"},
      {"note"} }

\* rows without a flaw, for the aggregation on its own: every label with
\* every amount, a refund among them
AggAmounts == {0 - 50, 50, 75, 100}

AggRows ==
    { RawRow(NumCell(a), TextCell(n), TextCell(Afternoon)) :
        a \in AggAmounts, n \in {Swiggy, Rahul, Bob} }

\* the parts the account names given to the classifier are built from;
\* two parts may join into a listed name, and the empty part gives the
\* empty name
Fragments ==
    { << >>, <<"S","w","i","g">>, <<"g","y">>, <<"A","M","A","Z","O","N">>,
      <<"r","a","h","u","l">>, <<"N","e">>, <<"h","a">>, <<"b","o","b"," ">>,
      <<"Z","o","m","a","t","o","!">> }

RECURSIVE Concat(_)
Concat(parts) == IF Len(parts) = 0 THEN << >> ELSE parts[1] \o Concat(Tail(parts))

Names == {Concat(parts) : parts \in [1..MaxFrags -> Fragments]}

Files ==
    {BadFile}
    \cup {CsvFile(required_cols, rows) : rows \in SeqUpTo(RawRows, MaxRows)}
    \cup {CsvFile(cols, rows) : cols \in OtherColumnSets,
                                rows \in SeqUpTo(RawRows, 1)}

-----------------------------------------------------------------------------
(* Step 2: coerce, drop, classify, format (lines 91-102).                  *)

\* pd.isna on a cell
isna(cell) == cell.kind = "na"

\* pd.to_numeric(errors="coerce") on a cell: a text that is no number
\* becomes missing (line 91)
to_numeric(cell) == IF cell.kind = "num" THEN cell ELSE NACell

\* Series.astype(str) on a cell: the text of the value; of a missing value
\* the text nan, which is a value and no longer missing (lines 92-93)
astype_str(cell) ==
    IF cell.kind = "na" THEN TextCell(NanText)
    ELSE IF cell.kind = "num" THEN TextCell(StrInt(cell.val))
    ELSE cell

\* lines 91-93 on one row
Coerce(row) ==
    [amount |-> to_numeric(row.amount),
     account_name |-> astype_str(row.account_name),
     timestamp |-> astype_str(row.timestamp)]

\* the row survives dropna(subset=["amount","account_name","timestamp"])
\* (line 96)
Survives(row) ==
    ~isna(row.amount) /\ ~isna(row.account_name) /\ ~isna(row.timestamp)

\* the amount column is float64 as soon as one of its cells is missing
\* after to_numeric, int64 otherwise
AmountDtype(rows) ==
    IF \E i \in 1..Len(rows) : isna(to_numeric(rows[i].amount))
    THEN "float64" ELSE "int64"

\* lines 91-97: the coerced rows that survive, in their order, reindexed
CoerceAndDrop(rows) ==
    SelectSeq([i \in 1..Len(rows) |-> Coerce(rows[i])], Survives)

\* the texts the account_name and timestamp columns hold after line 93
AccountTexts ==
    {astype_str(r.account_name).text : r \in RawRows \cup AggRows}

TimestampTexts ==
    {astype_str(r.timestamp).text : r \in RawRows \cup AggRows}

\* df.apply(classify_transaction_row, axis=1) (line 100): the label of
\* every account name of the column
apply_classify == [n \in AccountTexts |-> classify_transaction_row(n)]

\* df["timestamp"].apply(format_timestamp) (line 102): the result for
\* every timestamp of the column
apply_format == [t \in TimestampTexts |-> format_timestamp(t)]

\* lines 100-102 on one surviving row; formatted is what format_timestamp
\* gave, kept whole so that a raised exception is seen by the caller
Enrich(row, dtype) ==
    [amount |-> [val |-> row.amount.val, dtype |-> dtype],
     account_name |-> row.account_name.text,
     timestamp |-> row.timestamp.text,
     type |-> apply_classify[row.account_name.text],
     formatted |-> apply_format[row.timestamp.text]]

\* the row of the enriched table
EnrichedRow(e) ==
    [amount |-> e.amount, account_name |-> e.account_name,
     timestamp |-> e.timestamp, type |-> e.type,
     formatted_timestamp |-> e.formatted.text]

\* lines 91-102: the enriched table, or raised when format_timestamp
\* raised on some surviving row
Pipeline(rows) ==
    LET kept == CoerceAndDrop(rows)
        enriched == [i \in 1..Len(kept) |-> Enrich(kept[i], AmountDtype(rows))]
    IN  IF \E i \in 1..Len(enriched) : enriched[i].formatted.raised
        THEN [raised |-> TRUE, table |-> << >>]
        ELSE [raised |-> FALSE,
              table |-> [i \in 1..Len(enriched) |-> EnrichedRow(enriched[i])]]

\* analysis_df (line 105): the four exported columns
analysis_df(table) ==
    [i \in 1..Len(table) |->
        [amount |-> table[i].amount, account_name |-> table[i].account_name,
         type |-> table[i].type,
         formatted_timestamp |-> table[i].formatted_timestamp]]

-----------------------------------------------------------------------------
(* Step 4: totals per category (lines 119-124).                            *)

\* groupby sorts its keys: the labels in lexicographic order
GroupKeys == <<"Friend", "Merchant", "Stranger">>

\* a plausible slip: the rows are summed whatever their label
RECURSIVE SumAmountAnyLabel(_, _)
SumAmountAnyLabel(table, key) ==
    IF Len(table) = 0 THEN 0
    ELSE table[1].amount.val + SumAmountAnyLabel(Tail(table), key)

\* the sum of the amounts of the rows of one group
RECURSIVE SumAmount(_, _)
SumAmount(table, key) ==
    IF Len(table) = 0 THEN 0
    ELSE (IF table[1].type = key THEN table[1].amount.val ELSE 0)
         + SumAmount(Tail(table), key)

Occurs(table, key) == \E i \in 1..Len(table) : table[i].type = key

\* a plausible slip: a group for every label, present in the table or not
groupby_sum_all_keys(table) ==
    [k \in 1..Len(GroupKeys) |->
        [type |-> GroupKeys[k], amount |-> SumAmount(table, GroupKeys[k])]]

\* df.groupby("type")["amount"].sum().reset_index(): one row per label
\* that occurs, in key order
groupby_sum(table) ==
    LET Present(k) == Occurs(table, k)
        keys == SelectSeq(GroupKeys, Present)
    IN  [k \in 1..Len(keys) |->
            [type |-> keys[k], amount |-> SumAmount(table, keys[k])]]

\* one row put into a sequence sorted by amount descending, after the rows
\* of the same amount (the sort of three rows or fewer keeps their order)
RECURSIVE InsertDesc(_, _)
InsertDesc(sorted, row) ==
    IF Len(sorted) = 0 THEN <<row>>
    ELSE IF sorted[1].amount >= row.amount
         THEN <<sorted[1]>> \o InsertDesc(Tail(sorted), row)
         ELSE <<row>> \o sorted

\* a plausible slip: ascending=False left out
RECURSIVE sort_values_ascending(_)
sort_values_ascending(rows) ==
    IF Len(rows) = 0 THEN << >>
    ELSE LET rest == sort_values_ascending(Tail(rows))
             Smaller(r) == r.amount < rows[1].amount
             NotSmaller(r) == r.amount >= rows[1].amount
         IN  SelectSeq(rest, Smaller) \o <<rows[1]>> \o SelectSeq(rest, NotSmaller)

\* sort_values(by="amount", ascending=False)
RECURSIVE sort_values(_)
sort_values(rows) ==
    IF Len(rows) = 0 THEN << >>
    ELSE InsertDesc(sort_values(SubSeq(rows, 1, Len(rows) - 1)), rows[Len(rows)])

\* lines 119-124
CategoryTotals(table) == sort_values(groupby_sum(table))

-----------------------------------------------------------------------------
(* Step 5 and 6: the drill-down widgets (lines 140-168).                   *)

NoCategory == "None"

NoTxn == [amount |-> [val |-> 0, dtype |-> "none"], account_name |-> << >>,
          type |-> NoCategory, formatted_timestamp |-> << >>]

NoExport == [offered |-> FALSE, rows |-> << >>]

\* category_totals["type"].tolist()   (line 142)
TypeList(totals) == [i \in 1..Len(totals) |-> totals[i].type]

\* a plausible slip: the value the session holds is returned although the
\* widget now offers other options
selectbox_stale(opts, heldOpts, held) ==
    IF held # NoCategory THEN held
    ELSE IF Len(opts) = 0 THEN NoCategory ELSE opts[1]

\* st.selectbox(label, opts) without key: the session keeps the value of a
\* widget that is built again with the same label and options; any other
\* widget starts at its first option, and one without options gives None
selectbox(opts, heldOpts, held) ==
    IF Len(opts) = 0 THEN NoCategory
    ELSE IF heldOpts = opts /\ held # NoCategory THEN held
    ELSE opts[1]

\* st.radio(label, opts, index=0): the index the session holds for the same
\* widget, else index 0 (the first option)
radio(opts, heldOpts, heldIndex) ==
    IF heldOpts = opts /\ heldIndex \in 1..Len(opts) THEN heldIndex ELSE 1

\* str(row["amount"]) of a numpy int64 or float64 of whole value
AmountText(amount) ==
    IF amount.dtype = "float64" THEN StrInt(amount.val) \o <<".", "0">>
    ELSE StrInt(amount.val)

\* a plausible slip: the label names the date alone
LabelDateOnly(row) ==
    <<"o", "n", " ", " ">> \o row.formatted_timestamp

\* the f-string of line 152; the rupee sign and the arrow are one
\* character each
Label(row) ==
    <<"RUPEE">> \o AmountText(row.amount) \o <<" ", " ", "ARROW", " ", " ">>
    \o row.account_name \o <<" ", " ", "o", "n", " ", " ">>
    \o row.formatted_timestamp

\* df[df["type"] == chosen_category].reset_index(drop=True)   (line 145)
Filtered(table, chosen) ==
    LET Match(r) == r.type = chosen IN SelectSeq(table, Match)

\* lines 151-154
Options(rows) == [i \in 1..Len(rows) |-> Label(rows[i])]

\* options.index(selected_label): the first position of the label (line 160)
index(opts, label) ==
    CHOOSE i \in 1..Len(opts) :
        opts[i] = label /\ \A j \in 1..(i - 1) : opts[j] # label

\* the four fields the detail panel prints (lines 165-168)
Detail(row) ==
    [amount |-> row.amount, account_name |-> row.account_name,
     type |-> row.type, formatted_timestamp |-> row.formatted_timestamp]

-----------------------------------------------------------------------------
(* One run of the script (lines 73-171).  Streamlit runs it from the top   *)
(* on every upload and every widget change; s is the widget state the      *)
(* session holds from the run before.                                      *)

Held(catOpts, cat, radioOpts, radioIndex) ==
    [catOpts |-> catOpts, cat |-> cat,
     radioOpts |-> radioOpts, radioIndex |-> radioIndex]

\* a run that stops before any table is shown
Stopped(st) ==
    [status |-> st, df |-> << >>, csv_data |-> NoExport,
     category_totals |-> << >>, chosen_category |-> NoCategory,
     options |-> << >>, picked |-> 0, selected_label |-> << >>, txn |-> NoTxn]

\* category_totals.empty   (line 126)
IsEmpty(totals) == Len(totals) = 0

\* lines 139-168, reached with the table and its totals
DrillDown(table, totals, s) ==
    LET chosen == selectbox(TypeList(totals), s.catOpts, s.cat)
        filtered == Filtered(table, chosen)
        opts == Options(filtered)
        i == radio(opts, s.radioOpts, s.radioIndex)
        shown == [status |-> "Ready", df |-> table,
                  csv_data |-> [offered |-> TRUE, rows |-> analysis_df(table)],
                  category_totals |-> totals, chosen_category |-> chosen,
                  options |-> << >>, picked |-> 0, selected_label |-> << >>,
                  txn |-> NoTxn]
    IN  IF Len(filtered) = 0 THEN shown
        ELSE [shown EXCEPT !.options = opts, !.picked = i,
                           !.selected_label = opts[i],
                           !.txn = Detail(filtered[index(opts, opts[i])])]

\* lines 73-171
Script(file, s) ==
    IF file.kind = "none" THEN Stopped("NoFileLoaded")
    ELSE IF file.kind = "garbage" THEN Stopped("ParseError")
    ELSE IF ~(required_cols \subseteq file.columns) THEN Stopped("SchemaError")
    ELSE LET p == Pipeline(file.rows)
             totals == CategoryTotals(p.table)
         IN  IF p.raised THEN Stopped("Exception")
             ELSE IF IsEmpty(totals)
             THEN [Stopped("NothingToDisplay") EXCEPT
                      !.csv_data = [offered |-> TRUE, rows |-> << >>]]
             ELSE DrillDown(p.table, totals, s)

-----------------------------------------------------------------------------
(* The application: the user's events, each followed by a run of the       *)
(* script.                                                                 *)

\* the widget state the session holds after the last run
Session ==
    Held(TypeList(category_totals), chosen_category, options, picked)

Show(r) ==
    /\ status' = r.status
    /\ df' = r.df
    /\ csv_data' = r.csv_data
    /\ category_totals' = r.category_totals
    /\ chosen_category' = r.chosen_category
    /\ options' = r.options
    /\ picked' = r.picked
    /\ selected_label' = r.selected_label
    /\ txn' = r.txn

Init ==
    /\ uploaded_file = NoFile
    /\ status = "NoFileLoaded"
    /\ df = << >>
    /\ csv_data = NoExport
    /\ category_totals = << >>
    /\ chosen_category = NoCategory
    /\ options = << >>
    /\ picked = 0
    /\ selected_label = << >>
    /\ txn = NoTxn
    /\ name = << >>
    /\ category = "Unclassified"

\* the user puts a file into the uploader (line 68), in any state
Upload(file) ==
    /\ file # uploaded_file
    /\ uploaded_file' = file
    /\ Show(Script(file, Session))
    /\ UNCHANGED <<name, category>>

\* the user removes the file from the uploader
ClearFile ==
    /\ uploaded_file # NoFile
    /\ uploaded_file' = NoFile
    /\ Show(Script(NoFile, Session))
    /\ UNCHANGED <<name, category>>

\* the user picks another entry of the category selectbox (line 140)
PickCategory(c) ==
    /\ status = "Ready"
    /\ \E i \in 1..Len(category_totals) : category_totals[i].type = c
    /\ c # chosen_category
    /\ Show(Script(uploaded_file,
                   Held(TypeList(category_totals), c, options, picked)))
    /\ UNCHANGED <<uploaded_file, name, category>>

\* the user picks another entry of the transaction radio (line 157)
PickTransaction(i) ==
    /\ status = "Ready"
    /\ i \in 1..Len(options)
    /\ i # picked
    /\ Show(Script(uploaded_file,
                   Held(TypeList(category_totals), chosen_category, options, i)))
    /\ UNCHANGED <<uploaded_file, name, category>>

Next ==
    \/ \E file \in Files : Upload(file)
    \/ ClearFile
    \/ \E c \in {"Friend", "Merchant", "Stranger"} : PickCategory(c)
    \/ \E i \in 1..MaxRows : PickTransaction(i)

Spec == Init /\ [][Next]_vars

-----------------------------------------------------------------------------
(* The classifier on its own: a name is given, the label is returned.      *)

ClassifyInit ==
    /\ uploaded_file = NoFile
    /\ status = "NoFileLoaded"
    /\ df = << >>
    /\ csv_data = NoExport
    /\ category_totals = << >>
    /\ chosen_category = NoCategory
    /\ options = << >>
    /\ picked = 0
    /\ selected_label = << >>
    /\ txn = NoTxn
    /\ name \in Names
    /\ category = "Unclassified"

Classify ==
    /\ category = "Unclassified"
    /\ category' = classify_transaction_row(name)
    /\ UNCHANGED <<name, appVars>>

ClassifyNext == Classify

SpecClassify == ClassifyInit /\ [][ClassifyNext]_vars

-----------------------------------------------------------------------------
(* The aggregation on its own: an enriched table stands after line 102,    *)
(* made from rows without a flaw or from the rows of an upload that        *)
(* format_timestamp did not stop, and lines 119-124 total it.              *)

AggregateInit ==
    /\ uploaded_file \in
          {CsvFile(required_cols, rows) :
              rows \in SeqUpTo(AggRows, MaxAggRows) \cup SeqUpTo(RawRows, MaxRows)}
    /\ ~Pipeline(uploaded_file.rows).raised
    /\ status = "Enriched"
    /\ df = Pipeline(uploaded_file.rows).table
    /\ csv_data = NoExport
    /\ category_totals = << >>
    /\ chosen_category = NoCategory
    /\ options = << >>
    /\ picked = 0
    /\ selected_label = << >>
    /\ txn = NoTxn
    /\ name = << >>
    /\ category = "Unclassified"

Aggregate ==
    /\ status = "Enriched"
    /\ status' = "Aggregated"
    /\ category_totals' = CategoryTotals(df)
    /\ UNCHANGED <<uploaded_file, df, csv_data, chosen_category, options,
                   picked, selected_label, txn, name, category>>

AggregateNext == Aggregate

SpecAggregate == AggregateInit /\ [][AggregateNext]_vars

-----------------------------------------------------------------------------
(* Properties.                                                             *)

Categories == {"Merchant", "Friend", "Stranger"}

\* the lower-cased name contains some entry of the list
ContainsAny(list, text) ==
    \E i \in 1..Len(list) : Contains(list[i], lower(text))

\* C1: classify is total with fixed precedence: Merchant if the lower-cased
\* name contains a MERCHANTS substring, otherwise Friend if it contains a
\* CONTACTS substring, otherwise Stranger; a name with both is Merchant and
\* the empty name is Stranger; the label is exactly one of the three.
C1_ClassifyPrecedence ==
    category # "Unclassified" =>
        /\ category \in Categories
        /\ (category = "Merchant") = ContainsAny(MERCHANTS, name)
        /\ (category = "Friend") =
              (~ContainsAny(MERCHANTS, name) /\ ContainsAny(CONTACTS, name))
        /\ (name = << >> => category = "Stranger")

\* a name holding a merchant and a contact substring has been classified
C1_Witness ==
    /\ category = "Merchant"
    /\ ContainsAny(MERCHANTS, name) /\ ContainsAny(CONTACTS, name)

\* a raw row with a numeric amount and with account_name and timestamp
\* present
Complete(row) ==
    /\ row.amount.kind = "num"
    /\ row.account_name.kind # "na"
    /\ row.timestamp.kind # "na"

\* what a complete raw row holds, and what a row of the table holds
RawContent(row) ==
    [amount |-> row.amount.val, account_name |-> row.account_name.text,
     timestamp |-> row.timestamp.text]

TableContent(row) ==
    [amount |-> row.amount.val, account_name |-> row.account_name,
     timestamp |-> row.timestamp]

TableShown == status \in {"Ready", "NothingToDisplay"}

\* C2: rows with a non-numeric amount, a missing account_name or a missing
\* timestamp are excluded before classification: the enriched table holds
\* exactly the complete rows of the upload, in their order.
C2_OnlyCompleteRowsKept ==
    TableShown =>
        [i \in 1..Len(df) |-> TableContent(df[i])]
        = LET kept == SelectSeq(uploaded_file.rows, Complete)
          IN  [i \in 1..Len(kept) |-> RawContent(kept[i])]

NothingShown ==
    /\ df = << >>
    /\ ~csv_data.offered
    /\ category_totals = << >>
    /\ chosen_category = NoCategory
    /\ options = << >>
    /\ selected_label = << >>
    /\ txn = NoTxn

HasAllColumns(file) ==
    {"amount", "account_name", "timestamp"} \subseteq file.columns

\* C3: a table that lacks amount, account_name or timestamp ends in
\* SchemaError with no enriched table, export, totals or drill-down; a
\* table with the three columns and more is not a SchemaError.
C3_SchemaErrorStops ==
    uploaded_file.kind = "csv" =>
        /\ ~HasAllColumns(uploaded_file) =>
              status = "SchemaError" /\ NothingShown
        /\ HasAllColumns(uploaded_file) =>
              status \in {"Ready", "NothingToDisplay", "Exception"}

\* a table without the timestamp column, and with a row, was uploaded
C3_Witness ==
    /\ uploaded_file.kind = "csv"
    /\ uploaded_file.columns = {"amount", "account_name"}
    /\ Len(uploaded_file.rows) = 1
    /\ status = "SchemaError"

RECURSIVE SumInts(_)
SumInts(ints) == IF Len(ints) = 0 THEN 0 ELSE ints[1] + SumInts(Tail(ints))

\* the amounts of the rows of the table that carry the label
AmountsOf(table, label) ==
    LET Match(r) == r.type = label
        rows == SelectSeq(table, Match)
    IN  [i \in 1..Len(rows) |-> rows[i].amount.val]

\* C4: the totals of the categories add up to the amounts of the enriched
\* table: no row is counted twice and none is lost.
C4_SumInvariant ==
    status = "Aggregated" =>
        SumInts([i \in 1..Len(category_totals) |-> category_totals[i].amount])
        = SumInts([i \in 1..Len(df) |-> df[i].amount.val])

\* three rows in more than one category have been totalled
C4_Witness ==
    /\ status = "Aggregated"
    /\ Len(df) = 3
    /\ Len(category_totals) >= 2
    /\ \E i \in 1..Len(df) : df[i].amount.val < 0

\* C5: exactly one total for each category that occurs in the enriched
\* table and none for any other, each the sum of the amounts of that
\* category's rows, the sequence sorted by total descending.
C5_TotalsPerCategorySorted ==
    status = "Aggregated" =>
        /\ \A c \in Categories :
              Cardinality({i \in 1..Len(category_totals) :
                              category_totals[i].type = c})
              = IF \E j \in 1..Len(df) : df[j].type = c THEN 1 ELSE 0
        /\ \A i \in 1..Len(category_totals) :
              /\ category_totals[i].type \in Categories
              /\ category_totals[i].amount
                 = SumInts(AmountsOf(df, category_totals[i].type))
        /\ \A i, j \in 1..Len(category_totals) :
              i < j => category_totals[i].amount >= category_totals[j].amount

\* Merchant 100, Stranger 75, Friend 50
C5_Witness ==
    /\ status = "Aggregated"
    /\ category_totals = << [type |-> "Merchant", amount |-> 100],
                            [type |-> "Stranger", amount |-> 75],
                            [type |-> "Friend", amount |-> 50] >>

\* the state of the drill-down as the page shows it
DrillState ==
    IF uploaded_file = NoFile THEN "NoFileLoaded"
    ELSE IF status # "Ready" THEN status
    ELSE IF txn # NoTxn THEN "TransactionSelected"
    ELSE IF chosen_category # NoCategory THEN "CategorySelected"
    ELSE "TableReady"

\* C6 as stated: CategorySelected is entered only from TableReady and
\* TransactionSelected only from CategorySelected, by a pick.
C6_PicksOnlyStepByStep ==
    [][ /\ (DrillState' = "CategorySelected" /\ DrillState # "CategorySelected")
            => DrillState = "TableReady"
        /\ (DrillState' = "TransactionSelected"
            /\ DrillState # "TransactionSelected")
            => DrillState = "CategorySelected" ]_vars

\* the table, the totals and the selection come from the current file
FromCurrentFile ==
    /\ Len(df) <= Len(uploaded_file.rows)
    /\ \A i \in 1..Len(df) :
          \E j \in 1..Len(uploaded_file.rows) :
              /\ uploaded_file.rows[j].amount.kind = "num"
              /\ df[i].amount.val = uploaded_file.rows[j].amount.val
              /\ df[i].account_name
                 \in {uploaded_file.rows[j].account_name.text, NanText}
              /\ df[i].timestamp = uploaded_file.rows[j].timestamp.text
    /\ \A i \in 1..Len(category_totals) :
          \E j \in 1..Len(df) : df[j].type = category_totals[i].type
    /\ \E i \in 1..Len(category_totals) :
          category_totals[i].type = chosen_category
    /\ \E i \in 1..Len(df) :
          /\ df[i].type = chosen_category
          /\ txn = [amount |-> df[i].amount,
                    account_name |-> df[i].account_name,
                    type |-> df[i].type,
                    formatted_timestamp |-> df[i].formatted_timestamp]

\* C6 as amended: the page is in NoFileLoaded, in an end state without a
\* table (ParseError, SchemaError, Exception, NothingToDisplay), or in
\* TransactionSelected: a successful run with a surviving row selects a
\* category and a transaction in the same run, so TableReady and
\* CategorySelected never stand on their own; nothing is shown after a
\* ParseError or SchemaError; a pick changes the selection and leaves the
\* table and the totals alone; and after any upload the table, the totals
\* and the selection are those of the file now loaded.
C6_DefaultSelectionAndReset ==
    /\ [](/\ DrillState \in {"NoFileLoaded", "ParseError", "SchemaError",
                            "Exception", "NothingToDisplay",
                            "TransactionSelected"}
          /\ DrillState \in {"NoFileLoaded", "ParseError", "SchemaError"}
                => NothingShown
          /\ DrillState = "TransactionSelected" => FromCurrentFile)
    /\ [][ uploaded_file' = uploaded_file
             => /\ DrillState = "TransactionSelected"
                /\ DrillState' = "TransactionSelected"
                /\ df' = df /\ category_totals' = category_totals ]_vars

\* a category other than the first of the totals, and the second
\* transaction of it, are selected
C6_Witness ==
    /\ DrillState = "TransactionSelected"
    /\ Len(category_totals) = 2
    /\ chosen_category = category_totals[2].type

\* C7: when no row survives filtering, that is when the table has the
\* required columns and no complete row (a table of headers only among
\* them), the totals are empty, the run ends in NothingToDisplay and not
\* in an error, and no category or transaction is selected.
C7_NoSurvivorNothingToDisplay ==
    (/\ uploaded_file.kind = "csv"
     /\ HasAllColumns(uploaded_file)
     /\ \A i \in 1..Len(uploaded_file.rows) : ~Complete(uploaded_file.rows[i]))
    => /\ status = "NothingToDisplay"
       /\ category_totals = << >>
       /\ chosen_category = NoCategory
       /\ options = << >>
       /\ txn = NoTxn

\* a timestamp the strict or the permissive parse accepts
Accepted(ts) ==
    strptime(ts).kind = "datetime" \/ to_datetime(ts).kind = "datetime"

\* the shape DD Mon YYYY, hh:mm AM/PM
DisplayShape(text) ==
    /\ Len(text) = 21
    /\ \A k \in {1, 2, 8, 9, 10, 11, 14, 15, 17, 18} : IsDigit(text[k])
    /\ SubSeq(text, 4, 6) \in {MonthAbbr[m] : m \in 1..12}
    /\ text[12] = "," /\ text[16] = ":"
    /\ SubSeq(text, 20, 21) \in {<<"A","M">>, <<"P","M">>}

\* C8: a timestamp that no parse accepts never yields a display string:
\* every row of the table, of the export, of the transaction list and of
\* the detail panel carries a display string of the fixed shape made from a
\* timestamp that a parse accepted, and a surviving row with any other
\* timestamp ends the run in an exception with nothing shown.
C8_NoDisplayWithoutParse ==
    /\ \A i \in 1..Len(df) :
          /\ Accepted(df[i].timestamp)
          /\ DisplayShape(df[i].formatted_timestamp)
    /\ Len(csv_data.rows) = Len(df)
    /\ \A i \in 1..Len(csv_data.rows) :
          csv_data.rows[i].formatted_timestamp = df[i].formatted_timestamp
    /\ txn # NoTxn =>
          \E i \in 1..Len(df) :
              txn.formatted_timestamp = df[i].formatted_timestamp
    /\ (/\ uploaded_file.kind = "csv"
        /\ HasAllColumns(uploaded_file)
        /\ \E i \in 1..Len(uploaded_file.rows) :
              /\ uploaded_file.rows[i].amount.kind = "num"
              /\ uploaded_file.rows[i].timestamp.kind = "str"
              /\ ~Accepted(uploaded_file.rows[i].timestamp.text))
       => status = "Exception" /\ NothingShown

\* a row with a numeric amount and the timestamp soon was uploaded, after
\* a row whose timestamp parses
C8_Witness ==
    /\ status = "Exception"
    /\ Len(uploaded_file.rows) = 2
    /\ uploaded_file.rows[1].timestamp.text = Afternoon
    /\ uploaded_file.rows[2].amount.kind = "num"
    /\ uploaded_file.rows[2].timestamp.text = Soon

\* the rows of the table under the chosen category
RowsOfChosen ==
    LET Match(r) == r.type = chosen_category IN SelectSeq(df, Match)

\* C9: the selected category is one of the categories of the totals of the
\* current file, the transaction list is exactly the rows of that
\* category in table order, and the list is never empty.
C9_ChosenCategoryHasRows ==
    status = "Ready" =>
        /\ \E i \in 1..Len(category_totals) :
              category_totals[i].type = chosen_category
        /\ Len(options) = Len(RowsOfChosen)
        /\ \A i \in 1..Len(options) :
              options[i] =
                 <<"RUPEE">>
                 \o (IF RowsOfChosen[i].amount.dtype = "float64"
                     THEN StrInt(RowsOfChosen[i].amount.val) \o <<".", "0">>
                     ELSE StrInt(RowsOfChosen[i].amount.val))
                 \o <<" ", " ", "ARROW", " ", " ">>
                 \o RowsOfChosen[i].account_name
                 \o <<" ", " ", "o", "n", " ", " ">>
                 \o RowsOfChosen[i].formatted_timestamp
        /\ Len(options) >= 1

\* the user moved to the second category of the totals, with rows of the
\* other category standing before its row in the table
C9_Witness ==
    /\ status = "Ready"
    /\ Len(category_totals) = 2
    /\ chosen_category = category_totals[2].type
    /\ df[1].type # chosen_category
    /\ Len(options) = 1

\* C10: the detail panel echoes amount, account_name, category and
\* display_timestamp of the transaction the user picked in the list, also
\* when transactions of the category carry the same label.
C10_DetailEchoesPicked ==
    status = "Ready" =>
        /\ picked \in 1..Len(RowsOfChosen)
        /\ selected_label = options[picked]
        /\ txn.amount = RowsOfChosen[picked].amount
        /\ txn.account_name = RowsOfChosen[picked].account_name
        /\ txn.type = RowsOfChosen[picked].type
        /\ txn.formatted_timestamp = RowsOfChosen[picked].formatted_timestamp

\* the second of two transactions with one label is picked, their
\* timestamps differing in the seconds
C10_Witness ==
    /\ status = "Ready"
    /\ picked = 2
    /\ options[1] = options[2]
    /\ df[1].timestamp # df[2].timestamp

=============================================================================
